---- MODULE Spec2Model ----
(***************************************************************************)
(* Feetech SCS servo driver (so101-unified-dropdown/feetech_interface.py)  *)
(* and the step-bounded trajectory loop                                    *)
(* (so101-live-motorcam/so101_trajectory_test.py).                         *)
(*                                                                         *)
(* The specifications share the variables:                                 *)
(*   Spec        one run of main() of so101_trajectory_test.py, the device *)
(*               answering anything                                        *)
(*   SpecServo   the same run against servos that hold a position          *)
(*   SpecDriver  one call of one driver function, inputs drawn in Init     *)
(*   SpecDecode  one width-2 register read, every (lo, hi) data pair       *)
(*   SpecAngle   encoder_to_radians of the visualisation scripts           *)
(*   SpecScripts one run of main() of a streaming or teleoperation script  *)
(*   SpecMains   one run of main() of any of the scripts                   *)
(*   SpecLive    the trajectory run against servos that follow, with the   *)
(*               fairness of a program that keeps running                  *)
(*   SpecChannel a write call and the position read after it on one port   *)
(*   SpecRecorder the EpisodeRecorder of record_teleoperation.py           *)
(***************************************************************************)
EXTENDS Integers, Sequences, FiniteSets, TLC

VARIABLES
    pc,            \* position of main(): "open", "init_read", "poll", "tick_end", "exit"
    ser,           \* the serial handle: "none" (ser = None), "open", "closed"
    chan,          \* the physical channel: "ok" or "failed" (unplugged, port gone)
    waypoint_idx,  \* index into waypoints of the waypoint being driven to
    motor_idx,     \* index into MOTOR_IDS of the next motor the for loop visits
    all_reached,   \* the local all_reached of the current tick
    status,        \* per motor, what this tick's iteration found
    polled,        \* motor id of the last loop iteration (0: none yet)
    current,       \* what get_motor_position returned in the last iteration
    cmd,           \* the position handed to set_motor_position in it (None: no call)
    reported,      \* waypoint indexes logged as reached, in order
    io_raised,     \* a channel call has raised during this run
    cfg,           \* the module globals main() reads: MOTOR_IDS and the targets per waypoint
    dev,           \* the servos on the bus: positions held, commands received
    call,          \* SpecDriver: the driver call and its arguments
    fault,         \* SpecDriver: which channel call of the call raises
    avail,         \* SpecDriver: bytes the device delivers before the read times out
    dpc,           \* SpecDriver: "ready" or "done"
    result,        \* what the last driver call returned (or that it raised)
    nreads,        \* SpecDriver: how many times the call called ser.read
    tx,            \* packets handed to ser.write by the last step, in order
    rx,            \* bytes returned by ser.read in the last step
    script,        \* SpecScripts: one run of main() of a streaming or teleoperation script
    angle,         \* SpecAngle: an encoder reading and its conversion to an angle
    recorder       \* SpecRecorder: an EpisodeRecorder and the episode files on disk

vars == <<pc, ser, chan, waypoint_idx, motor_idx, all_reached, status, polled,
          current, cmd, reported, io_raised, cfg, dev, call, fault, avail, dpc, result,
          nreads, tx, rx, script, angle, recorder>>

runVars == <<pc, ser, chan, waypoint_idx, motor_idx, all_reached, status, polled,
             current, cmd, reported, io_raised, cfg, dev>>

driverVars == <<call, fault, avail, dpc, result, nreads>>

scriptVars == <<script, angle, recorder>>

(***************************************************************************)
(* Bounds of the model.                                                    *)
(***************************************************************************)
\* positions read are sampled at target +/- (STEP_SIZE + k), k in 0..Near
Near == 1
\* bytes the device may deliver beyond a complete response
MaxExtra == 1

(***************************************************************************)
(* Program constants.                                                      *)
(***************************************************************************)
SCS_WRITE == 3
SCS_READ == 2
SCS_GOAL_POSITION_L == 42
SCS_PRESENT_POSITION_L == 56
SCS_MODE == 33
SCS_GOAL_SPEED_L == 46
SCS_TORQUE_ENABLE == 40
ENCODER_MAX == 4095
STEP_SIZE == 20
POSITION_RANGE == 100
MOTOR_IDS == <<1, 2, 3, 4, 5, 6>>
HOME_POSITIONS == [m \in 1..6 |->
    CASE m = 1 -> 2054 [] m = 2 -> 1703 [] m = 3 -> 1311
      [] m = 4 -> 2524 [] m = 5 -> 2103 [] m = 6 -> 2162]
waypoints == <<0 - POSITION_RANGE, POSITION_RANGE, 0>>

(***************************************************************************)
(* Python values: an int, None, a bool, or a raised exception.             *)
(***************************************************************************)
IntVal(v) == [kind |-> "int", val |-> v]
None == [kind |-> "none", val |-> 0]
True == [kind |-> "bool", val |-> 1]
False == [kind |-> "bool", val |-> 0]
Raised == [kind |-> "raised", val |-> 0]

(***************************************************************************)
(* Python integer operators, computed bit by bit.  \div is floor division  *)
(* and % is non-negative, which is two's complement for a negative left    *)
(* operand, as Python's unbounded ints behave.                             *)
(***************************************************************************)
RECURSIVE BitAnd(_, _)
BitAnd(a, m) ==
    IF m = 0 THEN 0
    ELSE (a % 2) * (m % 2) + 2 * BitAnd(a \div 2, m \div 2)

RECURSIVE BitOr(_, _)
BitOr(a, b) ==
    IF a = 0 THEN b
    ELSE IF b = 0 THEN a
    ELSE (IF a % 2 = 1 \/ b % 2 = 1 THEN 1 ELSE 0) + 2 * BitOr(a \div 2, b \div 2)

BitNot(a) == 0 - a - 1

RECURSIVE Pow2(_)
Pow2(k) == IF k = 0 THEN 1 ELSE 2 * Pow2(k - 1)

ShiftRight(a, k) == a \div Pow2(k)

ShiftLeft(a, k) == a * Pow2(k)

RECURSIVE sum(_)
sum(s) == IF s = <<>> THEN 0 ELSE Head(s) + sum(Tail(s))

\* s[i:]
SliceFrom(s, i) == IF i >= Len(s) THEN <<>> ELSE SubSeq(s, i + 1, Len(s))

\* ser.read(n): at most n of the bytes that arrived
SerRead(bytes_in, n) == IF Len(bytes_in) <= n THEN bytes_in ELSE SubSeq(bytes_in, 1, n)

max(a, b) == IF a >= b THEN a ELSE b

min(a, b) == IF a <= b THEN a ELSE b

abs(a) == IF a < 0 THEN 0 - a ELSE a

(***************************************************************************)
(* feetech_interface.py.  A driver function is an operator of the bytes    *)
(* the device delivers (bytes_in), of which channel call raises (f:        *)
(* "none", "write" or "read") and of its arguments; it yields what the     *)
(* call returned, the packets it wrote and the bytes it read.  No function *)
(* of this file catches an exception: a raising channel call ends it.      *)
(***************************************************************************)
Outcome(ret, written, read, was_caught, n_reads) ==
    [ret |-> ret, tx |-> written, rx |-> read, caught |-> was_caught, reads |-> n_reads]

\* bytes(list) raises ValueError unless every element is in range(256)
IsBytes(list) == \A i \in 1..Len(list) : list[i] \in 0..255

\* mutant: the two header bytes are summed as well
calculate_checksum_whole_packet(packet) ==
    LET total == sum(packet)
    IN  BitAnd(BitNot(total), 255)

\* mutant: the sum is masked but not complemented
calculate_checksum_no_complement(packet) ==
    LET total == sum(SliceFrom(packet, 2))
    IN  BitAnd(total, 255)

calculate_checksum(packet) ==
    LET total == sum(SliceFrom(packet, 2))
    IN  BitAnd(BitNot(total), 255)

\* mutant: only the first header byte is compared
parse_response_first_byte_only(response, num_bytes) ==
    IF ~(Len(response) >= 5 + num_bytes) THEN None
    ELSE IF response[1] # 255 THEN None
    ELSE IF num_bytes = 2
         THEN IF Len(response) < 7 THEN Raised
              ELSE IntVal(BitOr(response[6], ShiftLeft(response[7], 8)))
         ELSE IntVal(response[6])

\* mutant: the data bytes are combined high byte first
parse_response_big_endian(response, num_bytes) ==
    IF ~(Len(response) >= 5 + num_bytes) THEN None
    ELSE IF response[1] # 255 THEN None
    ELSE IF response[2] # 255 THEN None
    ELSE IF num_bytes = 2
         THEN IF Len(response) < 7 THEN Raised
              ELSE IntVal(BitOr(response[7], ShiftLeft(response[6], 8)))
         ELSE IntVal(response[6])

\* "if len(response) >= 5 + num_bytes and response[0] == 0xFF and ...": the
\* value decoded, None, or the IndexError of an index past the end
parse_response(response, num_bytes) ==
    IF ~(Len(response) >= 5 + num_bytes) THEN None
    ELSE IF Len(response) < 1 THEN Raised
    ELSE IF response[1] # 255 THEN None
    ELSE IF Len(response) < 2 THEN Raised
    ELSE IF response[2] # 255 THEN None
    ELSE IF num_bytes = 2
         THEN IF Len(response) < 7 THEN Raised
              ELSE IntVal(BitOr(response[6], ShiftLeft(response[7], 8)))
         ELSE IF Len(response) < 6 THEN Raised
              ELSE IntVal(response[6])

read_motor_register(f, bytes_in, motor_id, register_address, num_bytes) ==
    LET packet_without_checksum ==
            <<255, 255, motor_id, 4, SCS_READ, register_address, num_bytes>>
        packet == Append(packet_without_checksum,
                         calculate_checksum(packet_without_checksum))
        response == SerRead(bytes_in, 5 + num_bytes + 1)
    IN  IF ~IsBytes(packet) THEN Outcome(Raised, <<>>, <<>>, FALSE, 0)
        ELSE IF f = "write" THEN Outcome(Raised, <<>>, <<>>, FALSE, 0)
        ELSE IF f = "read" THEN Outcome(Raised, <<packet>>, <<>>, FALSE, 1)
        ELSE Outcome(parse_response(response, num_bytes), <<packet>>, response, FALSE, 1)

get_motor_position(f, bytes_in, motor_id) ==
    read_motor_register(f, bytes_in, motor_id, SCS_PRESENT_POSITION_L, 2)

\* mutant: the upper bound is not applied
clamp_position_no_upper(position) == max(0, position)

\* position = max(0, min(ENCODER_MAX, int(position))), positions being ints
clamp_position(position) == max(0, min(ENCODER_MAX, position))

\* mutant: only the low byte of the value is sent
write_packet2_low_byte_only(motor_id, register_address, value) ==
    LET low == BitAnd(value, 255)
        packet_without_checksum ==
            <<255, 255, motor_id, 5, SCS_WRITE, register_address, low>>
    IN  Append(packet_without_checksum, calculate_checksum(packet_without_checksum))

\* a write of a two-byte register: the packet of set_motor_position and
\* set_motor_speed
write_packet2(motor_id, register_address, value) ==
    LET low == BitAnd(value, 255)
        high == BitAnd(ShiftRight(value, 8), 255)
        packet_without_checksum ==
            <<255, 255, motor_id, 5, SCS_WRITE, register_address, low, high>>
    IN  Append(packet_without_checksum, calculate_checksum(packet_without_checksum))

\* mutant: the length field is that of a two-byte write
write_packet1_length_of_two_bytes(motor_id, register_address, value) ==
    LET packet_without_checksum ==
            <<255, 255, motor_id, 5, SCS_WRITE, register_address, value>>
    IN  Append(packet_without_checksum, calculate_checksum(packet_without_checksum))

\* a write of a one-byte register: the packet of set_motor_mode and of
\* enable_motor_torque / disable_motor_torque
write_packet1(motor_id, register_address, value) ==
    LET packet_without_checksum ==
            <<255, 255, motor_id, 4, SCS_WRITE, register_address, value>>
    IN  Append(packet_without_checksum, calculate_checksum(packet_without_checksum))

\* ser.write(packet); sleep; return True
send_only(f, packet) ==
    IF ~IsBytes(packet) THEN Outcome(Raised, <<>>, <<>>, FALSE, 0)
    ELSE IF f = "write" THEN Outcome(Raised, <<>>, <<>>, FALSE, 0)
    ELSE Outcome(True, <<packet>>, <<>>, FALSE, 0)

\* ser.in_waiting and ser.read(ser.in_waiting) are the channel calls after
\* the write; the read takes every byte waiting
set_motor_position(f, bytes_in, motor_id, position) ==
    LET packet == write_packet2(motor_id, SCS_GOAL_POSITION_L, clamp_position(position))
    IN  IF ~IsBytes(packet) THEN Outcome(Raised, <<>>, <<>>, FALSE, 0)
        ELSE IF f = "write" THEN Outcome(Raised, <<>>, <<>>, FALSE, 0)
        ELSE IF f = "read" THEN Outcome(Raised, <<packet>>, <<>>, FALSE, IF Len(bytes_in) > 0 THEN 1 ELSE 0)
        ELSE IF Len(bytes_in) > 0
             THEN Outcome(True, <<packet>>, SerRead(bytes_in, Len(bytes_in)), FALSE, 1)
             ELSE Outcome(True, <<packet>>, <<>>, FALSE, 0)

set_motor_mode(f, motor_id, mode) ==
    send_only(f, write_packet1(motor_id, SCS_MODE, mode))

set_motor_speed(f, motor_id, speed) ==
    send_only(f, write_packet2(motor_id, SCS_GOAL_SPEED_L, speed))

enable_motor_torque(f, motor_id) ==
    send_only(f, write_packet1(motor_id, SCS_TORQUE_ENABLE, 1))

disable_motor_torque(f, motor_id) ==
    send_only(f, write_packet1(motor_id, SCS_TORQUE_ENABLE, 0))

(***************************************************************************)
(* so101_trajectory_test.py: its own copies of the driver (tt_), each      *)
(* channel call inside try / except Exception.                             *)
(***************************************************************************)
tt_calculate_checksum(packet) ==
    LET total == sum(SliceFrom(packet, 2))
    IN  BitAnd(BitNot(total), 255)

\* position = max(0, min(4095, int(position)))
tt_clamp_position(position) == max(0, min(4095, position))

tt_set_motor_position(f, motor_id, position) ==
    LET clamped == tt_clamp_position(position)
        length == 5
        pos_low == BitAnd(clamped, 255)
        pos_high == BitAnd(ShiftRight(clamped, 8), 255)
        packet_without_checksum ==
            <<255, 255, motor_id, length, SCS_WRITE, SCS_GOAL_POSITION_L, pos_low, pos_high>>
        packet == Append(packet_without_checksum,
                         tt_calculate_checksum(packet_without_checksum))
    IN  IF ~IsBytes(packet) THEN Outcome(Raised, <<>>, <<>>, FALSE, 0)
        ELSE IF f = "write" THEN Outcome(False, <<>>, <<>>, TRUE, 0)
        ELSE Outcome(True, <<packet>>, <<>>, FALSE, 0)

\* "if len(response) >= 8 and response[0] == 0xFF and response[1] == 0xFF"
tt_parse_response(response) ==
    IF ~(Len(response) >= 8) THEN None
    ELSE IF Len(response) < 1 THEN Raised
    ELSE IF response[1] # 255 THEN None
    ELSE IF Len(response) < 2 THEN Raised
    ELSE IF response[2] # 255 THEN None
    ELSE IF Len(response) < 7 THEN Raised
    ELSE IntVal(BitOr(response[6], ShiftLeft(response[7], 8)))

\* an IndexError in the try block is caught like any Exception: None
tt_get_motor_position(f, bytes_in, motor_id) ==
    LET length == 4
        packet_without_checksum ==
            <<255, 255, motor_id, length, SCS_READ, SCS_PRESENT_POSITION_L, 2>>
        packet == Append(packet_without_checksum,
                         tt_calculate_checksum(packet_without_checksum))
        response == SerRead(bytes_in, 8)
        parsed == tt_parse_response(response)
    IN  IF ~IsBytes(packet) THEN Outcome(Raised, <<>>, <<>>, FALSE, 0)
        ELSE IF f = "write" THEN Outcome(None, <<>>, <<>>, TRUE, 0)
        ELSE IF f = "read" THEN Outcome(None, <<packet>>, <<>>, TRUE, 1)
        ELSE IF parsed = Raised THEN Outcome(None, <<packet>>, response, TRUE, 1)
        ELSE Outcome(parsed, <<packet>>, response, FALSE, 1)

(***************************************************************************)
(* Inputs: what the device may put on the wire.  A status packet is        *)
(* Header(2) + ID + Len + Error + Data + Checksum; the channel may         *)
(* truncate it (timeout), corrupt it, or deliver bytes beyond it.          *)
(***************************************************************************)
ByteSamples == {0, 1, 128, 255}

HeaderSamples == {<<255, 255>>, <<255, 0>>, <<0, 255>>, <<0, 0>>}

Prefixes(s) == {SubSeq(s, 1, k) : k \in 0..Len(s)}

\* the checksum byte a device computes over id .. last data byte
DeviceChecksum(body) == 255 - (sum(body) % 256)

StatusPacket(hdr, motor_id, data, good) ==
    LET body == <<motor_id, Len(data) + 2, 0>> \o data
        chk == IF good THEN DeviceChecksum(body) ELSE (DeviceChecksum(body) + 1) % 256
    IN  hdr \o body \o <<chk>>

DataSamples(num_bytes) ==
    IF num_bytes = 2 THEN {<<lo, hi>> : lo \in ByteSamples, hi \in ByteSamples}
    ELSE {<<lo>> : lo \in ByteSamples}

Responses(motor_id, num_bytes) ==
    UNION {Prefixes(StatusPacket(hdr, motor_id, data, good) \o [i \in 1..MaxExtra |-> 255]) :
           hdr \in HeaderSamples, data \in DataSamples(num_bytes), good \in BOOLEAN}

\* a well-framed status packet of servo `id` with error byte `err`
StatusFrom(id, err, data) ==
    LET body == <<id, Len(data) + 2, err>> \o data
    IN  <<255, 255>> \o body \o <<DeviceChecksum(body)>>

\* what else may arrive on a shared bus: the answer of another servo, or an
\* answer with an error bit set (32: overload)
ForeignResponses(motor_id, num_bytes) ==
    {StatusFrom(id, err, IF num_bytes = 2 THEN <<0, 8>> ELSE <<1>>) :
        id \in {motor_id, (motor_id % 6) + 1}, err \in {0, 32}}
        \ {StatusFrom(motor_id, 0, IF num_bytes = 2 THEN <<0, 8>> ELSE <<1>>)}

\* the acknowledgment of a write instruction, when the servo sends one
Acks(motor_id) == {<<>>, StatusPacket(<<255, 255>>, motor_id, <<>>, TRUE)}

Faults == {"none", "write", "read"}

MotorIdSet == {MOTOR_IDS[i] : i \in 1..Len(MOTOR_IDS)}

PositionInputs ==
    {0 - 10, 0 - 1, 0, 1, 255, 256, 2048, 5000, 65535}
        \cup {ENCODER_MAX + k : k \in (0 - Near)..Near}

SpeedInputs == {0, 255, 256, 500, 4095}

ModeInputs == {0, 1, 3}

\* packets handed to calculate_checksum alone: any bytes, any length
MaxPacket == 5

PacketInputs == UNION {[1..n -> {0, 1, 200, 255}] : n \in 0..MaxPacket}

Call(op, motor_id, register_address, num_bytes, value, packet) ==
    [op |-> op, motor_id |-> motor_id, register_address |-> register_address,
     num_bytes |-> num_bytes, value |-> value, packet |-> packet]

NoCall == Call("none", 0, 0, 0, 0, <<>>)

ReadCalls ==
    {Call("read_motor_register", m, SCS_PRESENT_POSITION_L, 2, 0, <<>>) : m \in MotorIdSet}
        \cup {Call("read_motor_register", m, SCS_TORQUE_ENABLE, 1, 0, <<>>) : m \in MotorIdSet}
        \cup {Call("tt_get_motor_position", m, SCS_PRESENT_POSITION_L, 2, 0, <<>>) : m \in MotorIdSet}

WriteCalls ==
    {Call("set_motor_position", m, SCS_GOAL_POSITION_L, 2, v, <<>>) :
        m \in MotorIdSet, v \in PositionInputs}
        \cup {Call("tt_set_motor_position", m, SCS_GOAL_POSITION_L, 2, v, <<>>) :
                m \in MotorIdSet, v \in PositionInputs}
        \cup {Call("set_motor_mode", m, SCS_MODE, 1, v, <<>>) : m \in MotorIdSet, v \in ModeInputs}
        \cup {Call("set_motor_speed", m, SCS_GOAL_SPEED_L, 2, v, <<>>) :
                m \in MotorIdSet, v \in SpeedInputs}
        \cup {Call("enable_motor_torque", m, SCS_TORQUE_ENABLE, 1, 1, <<>>) : m \in MotorIdSet}
        \cup {Call("disable_motor_torque", m, SCS_TORQUE_ENABLE, 1, 0, <<>>) : m \in MotorIdSet}

ChecksumCalls == {Call("calculate_checksum", 0, 0, 0, 0, p) : p \in PacketInputs}

IsReader(c) == c.op \in {"read_motor_register", "tt_get_motor_position"}

IsPositionWriter(c) == c.op \in {"set_motor_position", "tt_set_motor_position"}

(***************************************************************************)
(* The globals main() reads, and the servos on the bus.                    *)
(***************************************************************************)
\* targets = {motor_id: HOME_POSITIONS[motor_id] + target_offset}
targets(idx) == [m \in MotorIdSet |-> HOME_POSITIONS[m] + waypoints[idx]]

\* MOTOR_IDS and, per waypoint, the targets dict as the script defines them
CodeCfg == [motor_ids |-> MOTOR_IDS, targets |-> [i \in 1..Len(waypoints) |-> targets(i)]]

\* little-endian data bytes of a position
PositionBytes(p) == <<p % 256, p \div 256>>

\* commands a servo model records before it stops recording
MaxLog == 6

\* no servo model: the device may answer a read with anything
AnyDevice ==
    [kind |-> "any", start |-> [m \in MotorIdSet |-> 0], pos |-> [m \in MotorIdSet |-> 0],
     stuck |-> {}, lossy |-> {}, log |-> <<>>]

\* servos that report the position they hold (`start` at power-on): a servo
\* outside `stuck` moves to the goal position it is sent, one in `lossy` may
\* leave a read unanswered; `log` is the goal positions received, in order
Servo(pos, stuck, lossy) ==
    [kind |-> "servo", start |-> pos, pos |-> pos, stuck |-> stuck, lossy |-> lossy,
     log |-> <<>>]

\* a write of the goal position register
IsGoalWrite(packet) ==
    Len(packet) = 9 /\ packet[5] = SCS_WRITE /\ packet[6] = SCS_GOAL_POSITION_L

RECURSIVE DeviceAfter(_, _)
\* the servos once the packets of one step have been transmitted
DeviceAfter(d, packets) ==
    IF packets = <<>> THEN d
    ELSE LET packet == Head(packets)
             goal == packet[7] + 256 * packet[8]
             moved == IF d.kind = "servo" /\ IsGoalWrite(packet)
                      THEN [d EXCEPT !.pos[packet[3]] = IF packet[3] \in d.stuck THEN @ ELSE goal,
                                     !.log = IF Len(@) < MaxLog
                                             THEN Append(@, <<packet[3], goal>>)
                                             ELSE @]
                      ELSE d
         IN  DeviceAfter(moved, Tail(packets))

(***************************************************************************)
(* SpecDriver: one call of one driver function.                            *)
(***************************************************************************)
\* a script that is not running
ScriptIdle == [pc |-> "idle"]

RunIdle ==
    /\ pc = "idle" /\ ser = "none" /\ chan = "ok"
    /\ waypoint_idx = 0 /\ motor_idx = 0 /\ all_reached = FALSE
    /\ status = [m \in MotorIdSet |-> "unpolled"]
    /\ polled = 0 /\ current = None /\ cmd = None
    /\ reported = <<>> /\ io_raised = FALSE
    /\ cfg = CodeCfg /\ dev = AnyDevice

InitDriver ==
    /\ RunIdle
    /\ script = ScriptIdle /\ angle = ScriptIdle /\ recorder = ScriptIdle
    /\ dpc = "ready" /\ result = None /\ nreads = 0 /\ tx = <<>> /\ rx = <<>>
    /\ \/ /\ call \in ReadCalls
          /\ \/ fault = "none" /\ avail \in Responses(call.motor_id, call.num_bytes)
             \/ fault = "none" /\ avail \in ForeignResponses(call.motor_id, call.num_bytes)
             \/ fault \in {"write", "read"} /\ avail = <<>>
       \/ /\ call \in WriteCalls
          /\ fault \in Faults
          /\ avail \in Acks(call.motor_id)
       \/ /\ call \in ChecksumCalls
          /\ fault = "none"
          /\ avail = <<>>

Return(o) ==
    /\ result' = o.ret
    /\ tx' = o.tx
    /\ rx' = o.rx
    /\ nreads' = o.reads
    /\ dpc' = "done"
    /\ UNCHANGED <<call, fault, avail>>
    /\ UNCHANGED <<runVars, scriptVars>>

DoCalculateChecksum ==
    /\ dpc = "ready" /\ call.op = "calculate_checksum"
    /\ Return(Outcome(IntVal(calculate_checksum(call.packet)), <<>>, <<>>, FALSE, 0))

DoReadMotorRegister ==
    /\ dpc = "ready" /\ call.op = "read_motor_register"
    /\ Return(read_motor_register(fault, avail, call.motor_id, call.register_address,
                                  call.num_bytes))

DoSetMotorPosition ==
    /\ dpc = "ready" /\ call.op = "set_motor_position"
    /\ Return(set_motor_position(fault, avail, call.motor_id, call.value))

DoSetMotorMode ==
    /\ dpc = "ready" /\ call.op = "set_motor_mode"
    /\ Return(set_motor_mode(fault, call.motor_id, call.value))

DoSetMotorSpeed ==
    /\ dpc = "ready" /\ call.op = "set_motor_speed"
    /\ Return(set_motor_speed(fault, call.motor_id, call.value))

DoEnableMotorTorque ==
    /\ dpc = "ready" /\ call.op = "enable_motor_torque"
    /\ Return(enable_motor_torque(fault, call.motor_id))

DoDisableMotorTorque ==
    /\ dpc = "ready" /\ call.op = "disable_motor_torque"
    /\ Return(disable_motor_torque(fault, call.motor_id))

DoTtGetMotorPosition ==
    /\ dpc = "ready" /\ call.op = "tt_get_motor_position"
    /\ Return(tt_get_motor_position(fault, avail, call.motor_id))

DoTtSetMotorPosition ==
    /\ dpc = "ready" /\ call.op = "tt_set_motor_position"
    /\ Return(tt_set_motor_position(fault, call.motor_id, call.value))

NextDriver ==
    \/ DoCalculateChecksum
    \/ DoReadMotorRegister
    \/ DoSetMotorPosition
    \/ DoSetMotorMode
    \/ DoSetMotorSpeed
    \/ DoEnableMotorTorque
    \/ DoDisableMotorTorque
    \/ DoTtGetMotorPosition
    \/ DoTtSetMotorPosition

SpecDriver == InitDriver /\ [][NextDriver]_vars

(***************************************************************************)
(* SpecChannel: a write call and then a position read on the same serial   *)
(* port, as the loops of the scripts make them.  The servo acknowledges a  *)
(* write or not; the acknowledgment is in the input buffer when the write  *)
(* call looks (avail), or arrives after the call has returned.  What the   *)
(* write call leaves unread is still in the buffer, ahead of the response  *)
(* to the read.                                                            *)
(***************************************************************************)
\* positions the servo answers the read with
ChannelPositions == {0, 2048, ENCODER_MAX}

InitChannel ==
    /\ InitDriver
    /\ call \in WriteCalls
    /\ fault = "none"

\* bytes still in the input buffer when the call returns: what the device
\* delivered less what the call read
Unread == SliceFrom(avail, Len(rx))

\* the next call on the port is get_motor_position, of the file the write
\* call is from
ThenRead ==
    /\ dpc = "done" /\ call \in WriteCalls /\ result = True
    /\ \E m \in MotorIdSet, p \in ChannelPositions,
          late \in (IF avail = <<>> THEN Acks(call.motor_id) ELSE {<<>>}) :
         /\ call' = Call(IF call.op = "tt_set_motor_position"
                         THEN "tt_get_motor_position" ELSE "read_motor_register",
                         m, SCS_PRESENT_POSITION_L, 2, 0, <<>>)
         /\ avail' = Unread \o late
                        \o StatusPacket(<<255, 255>>, m, PositionBytes(p), TRUE)
    /\ dpc' = "ready" /\ result' = None /\ nreads' = 0 /\ tx' = <<>> /\ rx' = <<>>
    /\ UNCHANGED fault
    /\ UNCHANGED <<runVars, scriptVars>>

NextChannel ==
    \/ DoSetMotorPosition
    \/ DoSetMotorMode
    \/ DoSetMotorSpeed
    \/ DoEnableMotorTorque
    \/ DoDisableMotorTorque
    \/ DoTtSetMotorPosition
    \/ ThenRead
    \/ DoReadMotorRegister
    \/ DoTtGetMotorPosition

SpecChannel == InitChannel /\ [][NextChannel]_vars

(***************************************************************************)
(* SpecDecode: a width-2 read of a well-formed response, for every pair    *)
(* of data bytes.                                                          *)
(***************************************************************************)
Byte == 0..255

InitDecode ==
    /\ RunIdle
    /\ script = ScriptIdle /\ angle = ScriptIdle /\ recorder = ScriptIdle
    /\ dpc = "ready" /\ result = None /\ nreads = 0 /\ tx = <<>> /\ rx = <<>>
    /\ call = Call("read_motor_register", 1, SCS_PRESENT_POSITION_L, 2, 0, <<>>)
    /\ fault = "none"
    /\ \E lo \in Byte, hi \in Byte : avail = StatusPacket(<<255, 255>>, 1, <<lo, hi>>, TRUE)

SpecDecode == InitDecode /\ [][DoReadMotorRegister]_vars

(***************************************************************************)
(* Spec: one run of main() of so101_trajectory_test.py.                    *)
(***************************************************************************)
\* positions a servo may report while driven to target t
PositionSamples(t) ==
    {t, 0, 65535} \cup {t - STEP_SIZE - k : k \in 0..Near} \cup {t + STEP_SIZE + k : k \in 0..Near}

\* what ser.read(8) may find: a full status packet, one cut short by the
\* timeout (7 bytes, none), or one with a corrupted header
TrajectoryResponses(motor_id, t) ==
    {StatusPacket(<<255, 255>>, motor_id, PositionBytes(p), TRUE) : p \in PositionSamples(t)}
        \cup {SubSeq(StatusPacket(<<255, 255>>, motor_id, PositionBytes(t), TRUE), 1, 7),
              StatusPacket(<<0, 255>>, motor_id, PositionBytes(t), TRUE),
              <<>>}

\* the channel calls that may raise in a driver call with `reads` reads:
\* every one once the channel has failed, any or none while it is up
FaultsNow(reads) ==
    IF dev.kind = "servo" THEN {"none"}
    ELSE IF chan = "failed" THEN {"write"}
    ELSE IF reads THEN {"none", "write", "read"}
    ELSE {"none", "write"}

\* a position read of the loop: the channel call that raises, if any, and
\* otherwise the bytes ser.read(8) finds
ReadChoices(motor_id, t) ==
    IF dev.kind = "servo"
    THEN {[f |-> "none",
           bytes_in |-> StatusPacket(<<255, 255>>, motor_id, PositionBytes(dev.pos[motor_id]), TRUE)]}
            \cup {[f |-> "none", bytes_in |-> <<>>] : m \in {motor_id} \cap dev.lossy}
    ELSE {[f |-> "none", bytes_in |-> r] :
            r \in IF chan = "failed" THEN {} ELSE TrajectoryResponses(motor_id, t)}
            \cup {[f |-> f, bytes_in |-> <<>>] : f \in FaultsNow(TRUE) \ {"none"}}

\* mutant: the snap to the target is missing, every command is a full step
next_command_no_snap(cur, target) ==
    LET error == target - cur
    IN  IF error > 0 THEN cur + STEP_SIZE
        ELSE cur - STEP_SIZE

\* mutant: a motor beyond STEP_SIZE of its target is stepped away from it
next_command_away_from_target(cur, target) ==
    LET error == target - cur
    IN  IF abs(error) <= STEP_SIZE THEN target
        ELSE IF error > 0 THEN cur - STEP_SIZE
        ELSE cur + STEP_SIZE

\* lines 205-217: the position handed to set_motor_position
next_command(cur, target) ==
    LET error == target - cur
    IN  IF abs(error) <= STEP_SIZE THEN target
        ELSE IF error > 0 THEN cur + STEP_SIZE
        ELSE cur - STEP_SIZE

\* mutant: a motor exactly STEP_SIZE away does not count as arrived
within_tolerance_strict(cur, target) == abs(target - cur) < STEP_SIZE

\* line 208: the branch that leaves all_reached as it is
within_tolerance(cur, target) == abs(target - cur) <= STEP_SIZE

\* line 197: a tick starts with all_reached = True
StartTick ==
    /\ pc' = "poll"
    /\ motor_idx' = 1
    /\ all_reached' = TRUE
    /\ status' = [m \in MotorIdSet |-> "unpolled"]
    /\ polled' = 0 /\ current' = None /\ cmd' = None
    /\ tx' = <<>> /\ rx' = <<>>

\* finally: if ser and ser.is_open: ser.close()
Finally ==
    /\ pc' = "exit"
    /\ ser' = IF ser = "open" THEN "closed" ELSE ser

\* main() is entered: nothing is open, no driver call has been made
Start ==
    /\ pc = "open" /\ ser = "none" /\ chan = "ok"
    /\ waypoint_idx = 0 /\ motor_idx = 0 /\ all_reached = FALSE
    /\ status = [m \in MotorIdSet |-> "unpolled"]
    /\ polled = 0 /\ current = None /\ cmd = None
    /\ reported = <<>> /\ io_raised = FALSE
    /\ call = NoCall /\ fault = "none" /\ avail = <<>> /\ dpc = "idle"
    /\ result = None /\ nreads = 0 /\ tx = <<>> /\ rx = <<>>
    /\ script = ScriptIdle /\ angle = ScriptIdle /\ recorder = ScriptIdle

Init ==
    /\ Start
    /\ cfg = CodeCfg /\ dev = AnyDevice


\* ser = serial.Serial(...): the port opens, or SerialException reaches
\* main's handler with ser still None
OpenSerial ==
    /\ pc = "open"
    /\ \/ /\ ser' = "open"
          /\ pc' = "init_read"
          /\ motor_idx' = 1
          /\ UNCHANGED <<chan, io_raised>>
       \/ /\ chan' = "failed"
          /\ io_raised' = TRUE
          /\ Finally
          /\ UNCHANGED motor_idx
    /\ UNCHANGED <<waypoint_idx, all_reached, status, polled, current, cmd, reported, tx, rx>>
    /\ UNCHANGED <<cfg, dev, driverVars, scriptVars>>

\* mutant: a motor whose initial read is absent is passed over
InitRead_absent_passed_over ==
    /\ pc = "init_read"
    /\ LET motor_id == cfg.motor_ids[motor_idx]
       IN  \E c \in ReadChoices(motor_id, HOME_POSITIONS[motor_id]) :
             LET got == tt_get_motor_position(c.f, c.bytes_in, motor_id)
             IN  /\ chan' = IF c.f # "none" THEN "failed" ELSE chan
                 /\ io_raised' = (io_raised \/ got.caught \/ got.ret = Raised)
                 /\ IF got.ret = Raised
                    THEN /\ Finally
                         /\ tx' = got.tx /\ rx' = got.rx
                         /\ UNCHANGED <<waypoint_idx, motor_idx, all_reached, status, polled,
                                        current, cmd>>
                    ELSE IF motor_idx < Len(cfg.motor_ids)
                    THEN /\ motor_idx' = motor_idx + 1
                         /\ tx' = got.tx /\ rx' = got.rx
                         /\ UNCHANGED <<pc, ser, waypoint_idx, all_reached, status, polled,
                                        current, cmd>>
                    ELSE /\ waypoint_idx' = 1
                         /\ StartTick
                         /\ UNCHANGED ser
    /\ UNCHANGED reported
    /\ UNCHANGED <<cfg, dev, driverVars, scriptVars>>

\* lines 169-179: one iteration of the initial read of every motor
InitRead ==
    /\ pc = "init_read"
    /\ LET motor_id == cfg.motor_ids[motor_idx]
       IN  \E c \in ReadChoices(motor_id, HOME_POSITIONS[motor_id]) :
             LET got == tt_get_motor_position(c.f, c.bytes_in, motor_id)
             IN  /\ chan' = IF c.f # "none" THEN "failed" ELSE chan
                 /\ io_raised' = (io_raised \/ got.caught \/ got.ret = Raised)
                 /\ IF got.ret = Raised
                    THEN /\ Finally
                         /\ tx' = got.tx /\ rx' = got.rx
                         /\ UNCHANGED <<waypoint_idx, motor_idx, all_reached, status, polled,
                                        current, cmd>>
                    ELSE IF got.ret = None
                    THEN /\ Finally
                         /\ tx' = got.tx /\ rx' = got.rx
                         /\ UNCHANGED <<waypoint_idx, motor_idx, all_reached, status, polled,
                                        current, cmd>>
                    ELSE IF motor_idx < Len(cfg.motor_ids)
                    THEN /\ motor_idx' = motor_idx + 1
                         /\ tx' = got.tx /\ rx' = got.rx
                         /\ UNCHANGED <<pc, ser, waypoint_idx, all_reached, status, polled,
                                        current, cmd>>
                    ELSE /\ waypoint_idx' = 1
                         /\ StartTick
                         /\ UNCHANGED ser
    /\ UNCHANGED reported
    /\ UNCHANGED <<cfg, dev, driverVars, scriptVars>>

\* lines 199-226: one iteration of "for motor_id in MOTOR_IDS"
Poll ==
    /\ pc = "poll"
    /\ LET motor_id == cfg.motor_ids[motor_idx]
           target == cfg.targets[waypoint_idx][motor_id]
       IN  \E c \in ReadChoices(motor_id, target) :
             LET got == tt_get_motor_position(c.f, c.bytes_in, motor_id)
                 failed1 == chan = "failed" \/ c.f # "none"
             IN  \E f2 \in (IF failed1 THEN {"write"} ELSE FaultsNow(FALSE)) :
                   LET next_pos == next_command(got.ret.val, target)
                       put == tt_set_motor_position(f2, motor_id, next_pos)
                       raised == got.ret = Raised \/ (got.ret # None /\ put.ret = Raised)
                   IN  /\ polled' = motor_id
                       /\ current' = got.ret
                       /\ rx' = got.rx
                       /\ IF got.ret \in {None, Raised}
                          THEN /\ cmd' = None
                               /\ tx' = got.tx
                               /\ dev' = DeviceAfter(dev, got.tx)
                               /\ chan' = IF failed1 THEN "failed" ELSE chan
                               /\ io_raised' = (io_raised \/ got.caught \/ raised)
                               /\ status' = [status EXCEPT ![motor_id] = "absent"]
                               /\ UNCHANGED all_reached
                          ELSE /\ cmd' = IntVal(next_pos)
                               /\ tx' = got.tx \o put.tx
                               /\ dev' = DeviceAfter(dev, got.tx \o put.tx)
                               /\ chan' = IF f2 # "none" THEN "failed" ELSE chan
                               /\ io_raised' = (io_raised \/ put.caught \/ raised)
                               /\ IF within_tolerance(got.ret.val, target)
                                  THEN /\ status' = [status EXCEPT ![motor_id] = "converged"]
                                       /\ UNCHANGED all_reached
                                  ELSE /\ status' = [status EXCEPT ![motor_id] = "stepping"]
                                       /\ all_reached' = FALSE
                       /\ IF raised
                          THEN Finally /\ UNCHANGED motor_idx
                          ELSE IF motor_idx < Len(cfg.motor_ids)
                          THEN motor_idx' = motor_idx + 1 /\ UNCHANGED <<pc, ser>>
                          ELSE pc' = "tick_end" /\ UNCHANGED <<motor_idx, ser>>
    /\ UNCHANGED <<waypoint_idx, reported>>
    /\ UNCHANGED <<cfg, driverVars, scriptVars>>

\* mutant: a reached waypoint is followed by the one after the next
TickEnd_skips_waypoint ==
    /\ pc = "tick_end"
    /\ IF all_reached
       THEN /\ reported' = Append(reported, waypoint_idx)
            /\ IF waypoint_idx + 1 < Len(cfg.targets)
               THEN /\ waypoint_idx' = waypoint_idx + 2
                    /\ StartTick
                    /\ UNCHANGED ser
               ELSE /\ Finally
                    /\ UNCHANGED <<waypoint_idx, motor_idx, all_reached, status, polled,
                                   current, cmd, tx, rx>>
       ELSE /\ StartTick
            /\ UNCHANGED <<ser, waypoint_idx, reported>>
    /\ UNCHANGED <<chan, io_raised>>
    /\ UNCHANGED <<cfg, dev, driverVars, scriptVars>>

\* lines 229-236: the end of a tick
TickEnd ==
    /\ pc = "tick_end"
    /\ IF all_reached
       THEN /\ reported' = Append(reported, waypoint_idx)
            /\ IF waypoint_idx < Len(cfg.targets)
               THEN /\ waypoint_idx' = waypoint_idx + 1
                    /\ StartTick
                    /\ UNCHANGED ser
               ELSE /\ Finally
                    /\ UNCHANGED <<waypoint_idx, motor_idx, all_reached, status, polled,
                                   current, cmd, tx, rx>>
       ELSE /\ StartTick
            /\ UNCHANGED <<ser, waypoint_idx, reported>>
    /\ UNCHANGED <<chan, io_raised>>
    /\ UNCHANGED <<cfg, dev, driverVars, scriptVars>>

\* except KeyboardInterrupt: the user stops the run
KeyboardInterrupt ==
    /\ pc \in {"init_read", "poll", "tick_end"}
    /\ Finally
    /\ UNCHANGED <<chan, waypoint_idx, motor_idx, all_reached, status, polled, current, cmd,
                   reported, io_raised, tx, rx>>
    /\ UNCHANGED <<cfg, dev, driverVars, scriptVars>>

Next ==
    \/ OpenSerial
    \/ InitRead
    \/ Poll
    \/ TickEnd
    \/ KeyboardInterrupt

Spec == Init /\ [][Next]_vars

(***************************************************************************)
(* SpecServo: the same run against servos that hold a position.  Either    *)
(* one motor is driven from a start position to the single target 2148,    *)
(* or the six motors of the script start at their home positions, motor 3  *)
(* possibly stuck and possibly leaving reads unanswered.                   *)
(***************************************************************************)
ScenarioStarts == {2048, 2068, 2088, 2128, 2138, 2148, 2158, 2248}

ScenarioCfg == [motor_ids |-> <<1>>, targets |-> <<[m \in MotorIdSet |-> 2148]>>]

ServoRuns ==
    {[cfg |-> ScenarioCfg, dev |-> Servo([m \in MotorIdSet |-> p], {}, {})] :
        p \in ScenarioStarts}
        \cup {[cfg |-> CodeCfg, dev |-> Servo([m \in MotorIdSet |-> HOME_POSITIONS[m]], s, l)] :
                s \in {{}, {3}}, l \in {{}, {3}}}

InitServo ==
    /\ Start
    /\ \E r \in ServoRuns : cfg = r.cfg /\ dev = r.dev

SpecServo == InitServo /\ [][Next]_vars

(***************************************************************************)
(* SpecLive: the run against servos that answer every read and hold the    *)
(* position last commanded, nobody interrupting it.  main() is one thread  *)
(* of blocking calls, each returning within the serial timeout or a sleep: *)
(* a step that can be taken is taken.  Start positions and targets are     *)
(* drawn from the ends and the middle of [0, 4095], for two motors and two *)
(* waypoints, beside the six motors and three waypoints of the script.     *)
(***************************************************************************)
LiveStarts == {0, 2048, ENCODER_MAX}

LiveTargets == {<<0, ENCODER_MAX>>, <<ENCODER_MAX, 0>>, <<2048, 2068>>, <<ENCODER_MAX, ENCODER_MAX>>}

LiveCfg(t) ==
    [motor_ids |-> <<1, 2>>,
     targets |-> <<[m \in MotorIdSet |-> t[1]], [m \in MotorIdSet |-> t[2]]>>]

LiveRuns ==
    {[cfg |-> LiveCfg(t),
      dev |-> Servo([m \in MotorIdSet |-> IF m = 1 THEN p1 ELSE p2], {}, {})] :
        t \in LiveTargets, p1 \in LiveStarts, p2 \in LiveStarts}
        \cup {[cfg |-> CodeCfg, dev |-> Servo([m \in MotorIdSet |-> HOME_POSITIONS[m]], {}, {})]}
        \cup {[cfg |-> CodeCfg, dev |-> Servo([m \in MotorIdSet |-> p], {}, {})] : p \in LiveStarts}

InitLive ==
    /\ Start
    /\ \E r \in LiveRuns : cfg = r.cfg /\ dev = r.dev

NextLive ==
    \/ OpenSerial
    \/ InitRead
    \/ Poll
    \/ TickEnd

\* where main() is: its position and that of its loop over the motors
mainAt == <<pc, motor_idx>>

\* main() goes on from where it is: every step of NextLive changes mainAt,
\* and one can be taken wherever main has not ended
MainProceeds ==
    /\ pc # "exit"
    /\ pc' \in {"init_read", "poll", "tick_end", "exit"}
    /\ motor_idx' \in 0..Len(MOTOR_IDS)

SpecLive == InitLive /\ [][NextLive]_vars /\ WF_mainAt(MainProceeds)

(***************************************************************************)
(* SpecAngle: encoder_to_radians of so101_visualize.py (the two            *)
(* teleoperation_viz.py carry the same function), applied to a reading     *)
(* and again after the encoder has gone on by one revolution of 4096       *)
(* counts.  The angle is kept exact: radians = (num / den) * TWO_PI.       *)
(***************************************************************************)
\* readings this close to the ends and to the middle of the range are drawn
AngleEdge == 1
\* revolutions an encoder reading is carried on by
MaxTurns == 1

JOINT_MULTIPLIERS == [m \in 1..6 |-> 1]

EncoderSamples ==
    (0..AngleEdge) \cup ((2047 - AngleEdge)..(2048 + AngleEdge))
        \cup ((ENCODER_MAX - AngleEdge)..ENCODER_MAX)

\* mutant: an offset below -ENCODER_MAX / 2 is not wrapped up
wrapped_offset_no_wrap_up(encoder_value, home_position, joint_offset) ==
    LET adjusted_encoder == (encoder_value + joint_offset) % ENCODER_MAX
        offset == adjusted_encoder - home_position
    IN  IF 2 * offset > ENCODER_MAX THEN offset - ENCODER_MAX
        ELSE offset

\* lines 98-111: the local `offset` after the wrap; joint_offset is
\* JOINT_ENCODER_OFFSETS[motor_id].  ENCODER_MAX / 2 is the float 2047.5:
\* offset > ENCODER_MAX / 2 iff 2 * offset > ENCODER_MAX
wrapped_offset(encoder_value, home_position, joint_offset) ==
    LET adjusted_encoder == (encoder_value + joint_offset) % ENCODER_MAX
        offset == adjusted_encoder - home_position
    IN  IF 2 * offset > ENCODER_MAX THEN offset - ENCODER_MAX
        ELSE IF 2 * offset < 0 - ENCODER_MAX THEN offset + ENCODER_MAX
        ELSE offset

\* radians = (offset / ENCODER_MAX) * TWO_PI * JOINT_MULTIPLIERS[motor_id]
encoder_to_radians(encoder_value, home_position, motor_id) ==
    LET offset == wrapped_offset(encoder_value, home_position,
                                 angle.JOINT_ENCODER_OFFSETS[motor_id])
    IN  [num |-> offset * JOINT_MULTIPLIERS[motor_id], den |-> ENCODER_MAX]

InitAngle ==
    /\ RunIdle
    /\ call = NoCall /\ fault = "none" /\ avail = <<>> /\ dpc = "idle"
    /\ result = None /\ nreads = 0 /\ tx = <<>> /\ rx = <<>>
    /\ script = ScriptIdle /\ recorder = ScriptIdle
    /\ \E e \in EncoderSamples, h \in EncoderSamples, o \in EncoderSamples, m \in MotorIdSet :
         angle = [pc |-> "ready", encoder_value |-> e, home_position |-> h, motor_id |-> m,
                  JOINT_ENCODER_OFFSETS |-> [i \in MotorIdSet |-> o],
                  turns |-> 0, offset |-> 0, radians |-> [num |-> 0, den |-> 1],
                  before |-> [num |-> 0, den |-> 1]]

\* angle = encoder_to_radians(pos, HOME_POSITIONS[motor_id], motor_id)
EncoderToRadians ==
    /\ angle.pc = "ready"
    /\ angle' = [angle EXCEPT
                    !.pc = "done",
                    !.offset = wrapped_offset(angle.encoder_value, angle.home_position,
                                              angle.JOINT_ENCODER_OFFSETS[angle.motor_id]),
                    !.radians = encoder_to_radians(angle.encoder_value, angle.home_position,
                                                   angle.motor_id)]
    /\ UNCHANGED <<runVars, driverVars, tx, rx, script, recorder>>

\* the reading goes on by 4096 counts, one revolution of a 12-bit encoder
FullTurn ==
    /\ angle.pc = "done"
    /\ angle.turns < MaxTurns
    /\ angle' = [angle EXCEPT
                    !.pc = "ready",
                    !.encoder_value = @ + 4096,
                    !.turns = @ + 1,
                    !.before = angle.radians]
    /\ UNCHANGED <<runVars, driverVars, tx, rx, script, recorder>>

NextAngle ==
    \/ EncoderToRadians
    \/ FullTurn

SpecAngle == InitAngle /\ [][NextAngle]_vars

(***************************************************************************)
(* SpecScripts: one run of main() of a script that streams positions       *)
(* (so101_live-motor.py, so101_visualize.py) or mirrors a leader arm onto  *)
(* a follower arm (so101_teleoperation.py, record_teleoperation.py and     *)
(* the two teleoperation_viz.py).  A dict is the sequence of its           *)
(* <<key, value>> pairs in insertion order, a list the sequence of its     *)
(* items.  Cameras and the episode recorder are left out.                  *)
(***************************************************************************)
ScriptNames ==
    {"so101_teleoperation", "record_teleoperation", "teleoperation_viz_dropdown",
     "teleoperation_viz_unified", "so101_visualize", "so101_live_motor"}

\* the scripts that open LEADER_PORT and FOLLOWER_PORT
TwoPorts(name) == name \notin {"so101_visualize", "so101_live_motor"}

JOINT_ENCODER_OFFSETS == [m \in 1..6 |-> 0]

\* HOME_POSITIONS of the visualisation scripts
VIZ_HOME_POSITIONS == [m \in 1..6 |-> 2048]

joint_names ==
    <<"shoulder_pan_joint", "shoulder_lift_joint", "elbow_joint",
      "wrist_1_joint", "wrist_2_joint", "wrist_3_joint">>

DictHas(d, k) == \E i \in 1..Len(d) : d[i][1] = k

DictGet(d, k) == d[CHOOSE i \in 1..Len(d) : d[i][1] = k][2]

DictPut(d, k, v) ==
    IF DictHas(d, k) THEN [i \in 1..Len(d) |-> IF d[i][1] = k THEN <<k, v>> ELSE d[i]]
    ELSE Append(d, <<k, v>>)

Keys(d) == [i \in 1..Len(d) |-> d[i][1]]

Values(d) == [i \in 1..Len(d) |-> d[i][2]]

\* connect_client.stream(stream, timestamp, names=names, values=values)
Sample(stream, names, values) == [stream |-> stream, names |-> names, values |-> values]

\* positions the leader arm (or the only arm) may report
LeaderSamples(motor_id) == IF motor_id = 1 THEN {0, 2048} ELSE {2048}

\* what a position read of the leader may find: a status packet or nothing
LeaderReads(motor_id) ==
    {StatusPacket(<<255, 255>>, motor_id, PositionBytes(p), TRUE) : p \in LeaderSamples(motor_id)}
        \cup {<<>>}

\* what a read of the arm read back may find; motors 1 and 6 may stay silent
BackReads(motor_id) ==
    {StatusPacket(<<255, 255>>, motor_id, PositionBytes(2048), TRUE)}
        \cup {<<>> : m \in {motor_id} \cap {1, 6}}

\* the locals of one pass of "while True"
StartScriptTick(s) ==
    [s EXCEPT !.pc = "read", !.idx = 1, !.got = <<>>, !.leader_positions = <<>>,
              !.joint_angles = <<>>, !.sent = <<>>, !.back = <<>>, !.samples = <<>>]

\* mutant: the follower port is left as it is
AfterFinally_follower_left_open(s, why) ==
    [StartScriptTick(s) EXCEPT
        !.pc = "exit", !.idx = 0, !.exit_by = why,
        !.ser_leader = IF @ = "open" THEN "closed" ELSE @]

\* finally: if ser_leader and ser_leader.is_open: ser_leader.close(), the
\* same for ser_follower; main returns and its locals are gone
AfterFinally(s, why) ==
    [StartScriptTick(s) EXCEPT
        !.pc = "exit", !.idx = 0, !.exit_by = why,
        !.ser_leader = IF @ = "open" THEN "closed" ELSE @,
        !.ser_follower = IF @ = "open" THEN "closed" ELSE @]

InitScripts ==
    /\ RunIdle
    /\ call = NoCall /\ fault = "none" /\ avail = <<>> /\ dpc = "idle"
    /\ result = None /\ nreads = 0 /\ tx = <<>> /\ rx = <<>>
    /\ angle = [pc |-> "idle", JOINT_ENCODER_OFFSETS |-> [m \in MotorIdSet |-> JOINT_ENCODER_OFFSETS[m]]]
    /\ recorder = ScriptIdle
    /\ \E name \in ScriptNames, v \in BOOLEAN :
         /\ v => name = "teleoperation_viz_dropdown"
         /\ script = [name |-> name, pc |-> "open_leader", idx |-> 0,
                      ser_leader |-> "none", ser_follower |-> "none",
                      visualize_leader |-> v, exit_by |-> "",
                      got |-> <<>>, leader_positions |-> <<>>, joint_angles |-> <<>>,
                      sent |-> <<>>, back |-> <<>>, samples |-> <<>>]

\* everything but the script
notScript == <<runVars, driverVars, tx, rx, angle, recorder>>

\* ser_leader = serial.Serial(LEADER_PORT, ...) (ser = serial.Serial(SERIAL_PORT, ...)
\* in the one-port scripts): the port opens or SerialException is raised
OpenLeaderPort ==
    /\ script.pc = "open_leader"
    /\ \/ script' = IF TwoPorts(script.name)
                     THEN [script EXCEPT !.ser_leader = "open", !.pc = "open_follower"]
                     ELSE [StartScriptTick(script) EXCEPT !.ser_leader = "open"]
       \/ script' = AfterFinally(script, "SerialException")
    /\ UNCHANGED notScript

\* ser_follower = serial.Serial(FOLLOWER_PORT, ...)
OpenFollowerPort ==
    /\ script.pc = "open_follower"
    /\ \/ script' = [script EXCEPT !.ser_follower = "open", !.pc = "configure", !.idx = 1]
       \/ script' = AfterFinally(script, "SerialException")
    /\ UNCHANGED notScript

\* one iteration of the loop that configures the follower: set_motor_mode,
\* set_motor_speed(speed=0), enable_motor_torque; ser.write of the k-th of
\* them raises (k = 0: none does)
ConfigureFollower ==
    /\ script.pc = "configure"
    /\ LET motor_id == MOTOR_IDS[script.idx]
       IN  \E k \in 0..3 :
             LET mode == set_motor_mode(IF k = 1 THEN "write" ELSE "none", motor_id, 0)
                 speed == set_motor_speed(IF k = 2 THEN "write" ELSE "none", motor_id, 0)
                 torque == enable_motor_torque(IF k = 3 THEN "write" ELSE "none", motor_id)
             IN  script' =
                   IF Raised \in {mode.ret, speed.ret, torque.ret}
                   THEN AfterFinally(script, "SerialException")
                   ELSE IF script.idx < Len(MOTOR_IDS)
                   THEN [script EXCEPT !.idx = @ + 1]
                   ELSE StartScriptTick(script)
    /\ UNCHANGED notScript

\* a driver call of a script: the channel call that raises, if any, and
\* otherwise the bytes waiting for ser.read
Exchanges(replies) ==
    {[f |-> "none", bytes_in |-> r] : r \in replies}
        \cup {[f |-> f, bytes_in |-> <<>>] : f \in {"write", "read"}}

\* where the loop over MOTOR_IDS goes on: its next iteration, or `then`
Advance(s, then) ==
    IF s.idx < Len(MOTOR_IDS) THEN [s EXCEPT !.idx = @ + 1]
    ELSE [s EXCEPT !.pc = then, !.idx = 1]

\* so101_teleoperation.py 164-167, so101-unified/teleoperation_viz.py
\* 193-196: if pos is not None: leader_positions[motor_id] = pos
ReadLeaderDict ==
    /\ script.pc = "read"
    /\ script.name \in {"so101_teleoperation", "teleoperation_viz_unified"}
    /\ LET motor_id == MOTOR_IDS[script.idx]
       IN  \E x \in Exchanges(LeaderReads(motor_id)) :
             LET pos == get_motor_position(x.f, x.bytes_in, motor_id).ret
                 read == [script EXCEPT
                            !.got = Append(@, <<motor_id, pos>>),
                            !.leader_positions =
                                IF pos # None THEN DictPut(@, motor_id, pos.val) ELSE @]
             IN  script' = IF pos = Raised THEN AfterFinally(script, "SerialException")
                           ELSE Advance(read, "command")
    /\ UNCHANGED notScript

\* so101-unified-dropdown/teleoperation_viz.py 128-133: the command follows
\* the read in the same iteration
ReadLeaderAndCommand ==
    /\ script.pc = "read"
    /\ script.name = "teleoperation_viz_dropdown"
    /\ LET motor_id == MOTOR_IDS[script.idx]
       IN  \E x \in Exchanges(LeaderReads(motor_id)), w \in Exchanges(Acks(motor_id)) :
             LET pos == get_motor_position(x.f, x.bytes_in, motor_id).ret
                 put == set_motor_position(w.f, w.bytes_in, motor_id, pos.val).ret
                 read == [script EXCEPT
                            !.got = Append(@, <<motor_id, pos>>),
                            !.leader_positions =
                                IF pos # None THEN DictPut(@, motor_id, pos.val) ELSE @,
                            !.sent = IF pos # None THEN Append(@, <<motor_id, pos.val>>) ELSE @]
             IN  script' = IF pos = Raised \/ (pos # None /\ put = Raised)
                           THEN AfterFinally(script, "SerialException")
                           ELSE Advance(read, "readback")
    /\ UNCHANGED notScript

\* record_teleoperation.py 327-333: leader_positions.append(pos), or
\* leader_positions.append(0) when pos is None
ReadLeaderList ==
    /\ script.pc = "read"
    /\ script.name = "record_teleoperation"
    /\ LET motor_id == MOTOR_IDS[script.idx]
       IN  \E x \in Exchanges(LeaderReads(motor_id)) :
             LET pos == get_motor_position(x.f, x.bytes_in, motor_id).ret
                 read == [script EXCEPT
                            !.got = Append(@, <<motor_id, pos>>),
                            !.leader_positions =
                                IF pos # None THEN Append(@, pos.val) ELSE Append(@, 0)]
             IN  script' = IF pos = Raised THEN AfterFinally(script, "SerialException")
                           ELSE Advance(read, "command")
    /\ UNCHANGED notScript

\* so101_visualize.py 172-182: motor_positions (kept in leader_positions)
\* and joint_angles get the position and its angle, or 0 and 0.0
ReadMotorList ==
    /\ script.pc = "read"
    /\ script.name = "so101_visualize"
    /\ LET motor_id == MOTOR_IDS[script.idx]
       IN  \E x \in Exchanges(LeaderReads(motor_id)) :
             LET pos == get_motor_position(x.f, x.bytes_in, motor_id).ret
                 read == [script EXCEPT
                            !.got = Append(@, <<motor_id, pos>>),
                            !.leader_positions =
                                IF pos # None THEN Append(@, pos.val) ELSE Append(@, 0),
                            !.joint_angles =
                                IF pos # None
                                THEN Append(@, encoder_to_radians(
                                                 pos.val, VIZ_HOME_POSITIONS[motor_id], motor_id))
                                ELSE Append(@, [num |-> 0, den |-> ENCODER_MAX])]
             IN  script' = IF pos = Raised THEN AfterFinally(script, "SerialException")
                           ELSE Advance(read, "publish")
    /\ UNCHANGED notScript

\* so101_live-motor.py 117-120: positions = {f"motor_{motor_id}":
\* get_motor_position(ser, motor_id) ...}, the reader catching every
\* exception (kept in leader_positions, None included)
ReadMotorDict ==
    /\ script.pc = "read"
    /\ script.name = "so101_live_motor"
    /\ LET motor_id == MOTOR_IDS[script.idx]
       IN  \E x \in Exchanges(LeaderReads(motor_id)) :
             LET pos == tt_get_motor_position(x.f, x.bytes_in, motor_id).ret
                 read == [script EXCEPT
                            !.got = Append(@, <<motor_id, pos>>),
                            !.leader_positions = DictPut(@, <<"motor", motor_id>>, pos)]
             IN  script' = IF pos = Raised THEN AfterFinally(script, "Exception")
                           ELSE Advance(read, "publish")
    /\ UNCHANGED notScript

\* so101_teleoperation.py 170-173, so101-unified/teleoperation_viz.py
\* 199-201: if motor_id in leader_positions: set_motor_position(...)
CommandFollowerPresent ==
    /\ script.pc = "command"
    /\ script.name \in {"so101_teleoperation", "teleoperation_viz_unified"}
    /\ LET motor_id == MOTOR_IDS[script.idx]
       IN  IF DictHas(script.leader_positions, motor_id)
           THEN \E w \in Exchanges(Acks(motor_id)) :
                  LET target_position == DictGet(script.leader_positions, motor_id)
                      put == set_motor_position(w.f, w.bytes_in, motor_id, target_position).ret
                      done == [script EXCEPT !.sent = Append(@, <<motor_id, target_position>>)]
                  IN  script' = IF put = Raised THEN AfterFinally(script, "SerialException")
                                ELSE Advance(done, "publish")
           ELSE script' = Advance(script, "publish")
    /\ UNCHANGED notScript

\* record_teleoperation.py 336-337: set_motor_position(ser_follower,
\* motor_id, leader_positions[i]) for every motor
CommandFollowerAll ==
    /\ script.pc = "command"
    /\ script.name = "record_teleoperation"
    /\ LET motor_id == MOTOR_IDS[script.idx]
       IN  \E w \in Exchanges(Acks(motor_id)) :
             LET position == script.leader_positions[script.idx]
                 put == set_motor_position(w.f, w.bytes_in, motor_id, position).ret
                 done == [script EXCEPT !.sent = Append(@, <<motor_id, position>>)]
             IN  script' = IF put = Raised THEN AfterFinally(script, "SerialException")
                           ELSE Advance(done, "readback")
    /\ UNCHANGED notScript

\* record_teleoperation.py 340-346: follower_positions (kept in back)
ReadBackFollower ==
    /\ script.pc = "readback"
    /\ script.name = "record_teleoperation"
    /\ LET motor_id == MOTOR_IDS[script.idx]
       IN  \E x \in Exchanges(BackReads(motor_id)) :
             LET pos == get_motor_position(x.f, x.bytes_in, motor_id).ret
                 read == [script EXCEPT
                            !.back = IF pos # None THEN Append(@, pos.val) ELSE Append(@, 0)]
             IN  script' = IF pos = Raised THEN AfterFinally(script, "SerialException")
                           ELSE Advance(read, "publish")
    /\ UNCHANGED notScript

\* so101-unified-dropdown/teleoperation_viz.py 136-140: viz_positions (kept
\* in back), read from the arm the dropdown selects
ReadVizArm ==
    /\ script.pc = "readback"
    /\ script.name = "teleoperation_viz_dropdown"
    /\ LET motor_id == MOTOR_IDS[script.idx]
       IN  \E x \in Exchanges(BackReads(motor_id)) :
             LET pos == get_motor_position(x.f, x.bytes_in, motor_id).ret
                 read == [script EXCEPT
                            !.back = IF pos # None THEN DictPut(@, motor_id, pos.val) ELSE @]
             IN  script' = IF pos = Raised THEN AfterFinally(script, "SerialException")
                           ELSE Advance(read, "publish")
    /\ UNCHANGED notScript

\* [f"motor_{i}" for i in MOTOR_IDS]
motor_names == [i \in 1..Len(MOTOR_IDS) |-> <<"motor", MOTOR_IDS[i]>>]

\* [d[i] for i in MOTOR_IDS]
ValuesInOrder(d) == [i \in 1..Len(MOTOR_IDS) |-> DictGet(d, MOTOR_IDS[i])]

\* [encoder_to_radians(d[i], HOME_POSITIONS[i], i) for i in MOTOR_IDS]
AnglesInOrder(d) ==
    [i \in 1..Len(MOTOR_IDS) |->
        encoder_to_radians(DictGet(d, MOTOR_IDS[i]), VIZ_HOME_POSITIONS[MOTOR_IDS[i]],
                           MOTOR_IDS[i])]

\* the samples of this pass are out; time.sleep(1.0 / RATE) is next
Published(s, samples) == [s EXCEPT !.samples = samples, !.pc = "sleep"]

\* so101_teleoperation.py 176-187: one sample per motor in leader_positions
PublishTeleoperation ==
    /\ script.pc = "publish"
    /\ script.name = "so101_teleoperation"
    /\ LET present == SelectSeq(MOTOR_IDS, LAMBDA m : DictHas(script.leader_positions, m))
           samples == [i \in 1..Len(present) |->
                         Sample("teleoperation",
                                <<<<"leader_motor", present[i]>>, <<"follower_cmd", present[i]>>>>,
                                <<DictGet(script.leader_positions, present[i]),
                                  DictGet(script.leader_positions, present[i])>>)]
       IN  \/ script' = Published(script, samples)
           \/ script' = AfterFinally(script, "Exception")
    /\ UNCHANGED notScript

\* so101-unified/teleoperation_viz.py 204-234: only when every motor was read
PublishUnified ==
    /\ script.pc = "publish"
    /\ script.name = "teleoperation_viz_unified"
    /\ LET samples ==
             IF Len(script.leader_positions) = Len(MOTOR_IDS)
             THEN <<Sample("leader_positions", motor_names,
                           ValuesInOrder(script.leader_positions)),
                    Sample("follower_commands", motor_names,
                           ValuesInOrder(script.leader_positions)),
                    Sample("pose", joint_names, AnglesInOrder(script.leader_positions))>>
             ELSE <<>>
       IN  \/ script' = Published(script, samples)
           \/ script' = AfterFinally(script, "Exception")
    /\ UNCHANGED notScript

\* so101-unified-dropdown/teleoperation_viz.py 143-154: only when every
\* motor of the visualised arm was read
PublishDropdown ==
    /\ script.pc = "publish"
    /\ script.name = "teleoperation_viz_dropdown"
    /\ LET samples ==
             IF Len(script.back) = Len(MOTOR_IDS)
             THEN <<Sample("motor_positions", motor_names, ValuesInOrder(script.back)),
                    Sample("pose", joint_names, AnglesInOrder(script.back))>>
             ELSE <<>>
       IN  \/ script' = Published(script, samples)
           \/ script' = AfterFinally(script, "Exception")
    /\ UNCHANGED notScript

\* record_teleoperation.py 348-384: "continue" when a camera frame is
\* missing, else the two motor samples
PublishRecord ==
    /\ script.pc = "publish"
    /\ script.name = "record_teleoperation"
    /\ LET names == [i \in 1..6 |-> <<"motor", i>>]
           samples == <<Sample("leader_motors", names, script.leader_positions),
                        Sample("follower_motors", names, script.back)>>
       IN  \/ script' = StartScriptTick(script)
           \/ script' = Published(script, samples)
           \/ script' = AfterFinally(script, "Exception")
    /\ UNCHANGED notScript

\* so101_visualize.py 184-197
PublishVisualize ==
    /\ script.pc = "publish"
    /\ script.name = "so101_visualize"
    /\ LET motor_channels == [i \in 1..6 |-> <<"motor", i>>]
           samples == <<Sample("pose", joint_names, script.joint_angles),
                        Sample("motor_positions", motor_channels, script.leader_positions)>>
       IN  \/ script' = Published(script, samples)
           \/ script' = AfterFinally(script, "Exception")
    /\ UNCHANGED notScript

\* mutant: the channel names are those of every motor polled
PublishLiveMotor_names_of_all ==
    /\ script.pc = "publish"
    /\ script.name = "so101_live_motor"
    /\ LET valid_positions == SelectSeq(script.leader_positions, LAMBDA kv : kv[2] # None)
           channel_names == Keys(script.leader_positions)
           channel_values == [i \in 1..Len(valid_positions) |-> valid_positions[i][2].val]
           samples == IF valid_positions # <<>>
                      THEN <<Sample("so101_motors", channel_names, channel_values)>>
                      ELSE <<>>
       IN  \/ script' = Published(script, samples)
           \/ script' = AfterFinally(script, "Exception")
    /\ UNCHANGED notScript

\* so101_live-motor.py 123-146: the motors that answered, if any did
PublishLiveMotor ==
    /\ script.pc = "publish"
    /\ script.name = "so101_live_motor"
    /\ LET valid_positions == SelectSeq(script.leader_positions, LAMBDA kv : kv[2] # None)
           channel_names == Keys(valid_positions)
           channel_values == [i \in 1..Len(valid_positions) |-> valid_positions[i][2].val]
           samples == IF valid_positions # <<>>
                      THEN <<Sample("so101_motors", channel_names, channel_values)>>
                      ELSE <<>>
       IN  \/ script' = Published(script, samples)
           \/ script' = AfterFinally(script, "Exception")
    /\ UNCHANGED notScript

\* time.sleep(1.0 / RATE), then the next pass of "while True"
NextTick ==
    /\ script.pc = "sleep"
    /\ script' = StartScriptTick(script)
    /\ UNCHANGED notScript

\* except KeyboardInterrupt, anywhere inside main's try
ScriptInterrupt ==
    /\ script.pc \notin {"idle", "exit"}
    /\ script' = AfterFinally(script, "KeyboardInterrupt")
    /\ UNCHANGED notScript

NextScripts ==
    \/ OpenLeaderPort
    \/ OpenFollowerPort
    \/ ConfigureFollower
    \/ ReadLeaderDict
    \/ ReadLeaderAndCommand
    \/ ReadLeaderList
    \/ ReadMotorList
    \/ ReadMotorDict
    \/ CommandFollowerPresent
    \/ CommandFollowerAll
    \/ ReadBackFollower
    \/ ReadVizArm
    \/ PublishTeleoperation
    \/ PublishUnified
    \/ PublishDropdown
    \/ PublishRecord
    \/ PublishVisualize
    \/ PublishLiveMotor
    \/ NextTick
    \/ ScriptInterrupt

SpecScripts == InitScripts /\ [][NextScripts]_vars

(***************************************************************************)
(* SpecMains: one run of main() of the trajectory script or of one of the  *)
(* other scripts.                                                          *)
(***************************************************************************)
InitMains == Init \/ InitScripts

NextMains == Next \/ NextScripts

SpecMains == InitMains /\ [][NextMains]_vars

(***************************************************************************)
(* SpecRecorder: the EpisodeRecorder of record_teleoperation.py, called in *)
(* any order.  recorder.self holds the attributes of the object, files the *)
(* numbers of the episode_*.hdf5 files in data_dir, called the method last *)
(* called and raised whether it raised.  A frame is its timestamp; the     *)
(* positions and the camera frames are tokens.                             *)
(***************************************************************************)
\* frames added to one episode
MaxFrames == 3
\* stop_recording is called while the episode number is at most this
MaxEpisode == 3

\* what data_dir may hold when the recorder is constructed
DiskStarts == {{}, {0}, {0, 2}}

TimestampSamples == {10, 11}

\* _get_next_episode_num: 0, or the highest number on disk + 1
get_next_episode_num(existing) ==
    IF existing = {} THEN 0
    ELSE (CHOOSE n \in existing : \A k \in existing : k <= n) + 1

\* __init__
InitRecorder ==
    /\ RunIdle
    /\ call = NoCall /\ fault = "none" /\ avail = <<>> /\ dpc = "idle"
    /\ result = None /\ nreads = 0 /\ tx = <<>> /\ rx = <<>>
    /\ script = ScriptIdle /\ angle = ScriptIdle
    /\ \E existing \in DiskStarts :
         recorder =
            [self |-> [is_recording |-> FALSE,
                       current_episode_num |-> get_next_episode_num(existing),
                       frame_count |-> 0,
                       timestamps |-> <<>>, leader_positions |-> <<>>,
                       follower_positions |-> <<>>,
                       camera_1_frames |-> <<>>, camera_2_frames |-> <<>>],
             files |-> existing, called |-> "__init__", raised |-> FALSE]

notRecorder == <<runVars, driverVars, tx, rx, script, angle>>

StartRecording ==
    /\ recorder.called # "idle"
    /\ recorder' =
         [recorder EXCEPT
            !.called = "start_recording", !.raised = FALSE,
            !.self = IF @.is_recording THEN @
                     ELSE [@ EXCEPT !.is_recording = TRUE, !.frame_count = 0,
                                    !.timestamps = <<>>, !.leader_positions = <<>>,
                                    !.follower_positions = <<>>,
                                    !.camera_1_frames = <<>>, !.camera_2_frames = <<>>]]
    /\ UNCHANGED notRecorder

\* mutant: the frame of the second camera is not kept
AddFrame_without_camera_2 ==
    /\ recorder.called # "idle"
    /\ recorder.self.frame_count < MaxFrames
    /\ \E timestamp \in TimestampSamples :
         recorder' =
            [recorder EXCEPT
               !.called = "add_frame", !.raised = FALSE,
               !.self = IF ~@.is_recording THEN @
                        ELSE [@ EXCEPT !.timestamps = Append(@, timestamp),
                                       !.leader_positions = Append(@, "leader_pos"),
                                       !.follower_positions = Append(@, "follower_pos"),
                                       !.camera_1_frames = Append(@, "cam1_frame"),
                                       !.frame_count = @ + 1]]
    /\ UNCHANGED notRecorder

AddFrame ==
    /\ recorder.called # "idle"
    /\ recorder.self.frame_count < MaxFrames
    /\ \E timestamp \in TimestampSamples :
         recorder' =
            [recorder EXCEPT
               !.called = "add_frame", !.raised = FALSE,
               !.self = IF ~@.is_recording THEN @
                        ELSE [@ EXCEPT !.timestamps = Append(@, timestamp),
                                       !.leader_positions = Append(@, "leader_pos"),
                                       !.follower_positions = Append(@, "follower_pos"),
                                       !.camera_1_frames = Append(@, "cam1_frame"),
                                       !.camera_2_frames = Append(@, "cam2_frame"),
                                       !.frame_count = @ + 1]]
    /\ UNCHANGED notRecorder

\* the episode is written to episode_<current_episode_num>.hdf5, or
\* h5py.File or create_dataset raises, the file created or not
StopRecording ==
    /\ recorder.called # "idle"
    /\ recorder.self.current_episode_num <= MaxEpisode
    /\ LET self == recorder.self
           stopped == [self EXCEPT !.is_recording = FALSE]
       IN  IF ~self.is_recording
           THEN recorder' = [recorder EXCEPT !.called = "stop_recording", !.raised = FALSE]
           ELSE IF self.frame_count = 0
           THEN recorder' = [recorder EXCEPT !.called = "stop_recording", !.raised = FALSE,
                                             !.self = stopped]
           ELSE \/ recorder' =
                     [recorder EXCEPT
                        !.called = "stop_recording", !.raised = FALSE,
                        !.files = @ \cup {self.current_episode_num},
                        !.self = [stopped EXCEPT !.current_episode_num = @ + 1]]
                \/ \E created \in BOOLEAN :
                     recorder' =
                        [recorder EXCEPT
                           !.called = "stop_recording", !.raised = TRUE,
                           !.files = IF created THEN @ \cup {self.current_episode_num} ELSE @,
                           !.self = stopped]
    /\ UNCHANGED notRecorder

NextRecorder ==
    \/ StartRecording
    \/ AddFrame
    \/ StopRecording

SpecRecorder == InitRecorder /\ [][NextRecorder]_vars

(***************************************************************************)
(* Properties.                                                             *)
(***************************************************************************)
HeaderOk(response) == Len(response) >= 2 /\ response[1] = 255 /\ response[2] = 255

\* the last byte of a complete response is the complement of the sum of
\* its bytes from the id field through the last data byte
ChecksumOk(response, num_bytes) ==
    /\ Len(response) = 5 + num_bytes + 1
    /\ response[Len(response)] =
           255 - (sum(SubSeq(response, 3, Len(response) - 1)) % 256)

\* the position a write packet carries: low byte + 256 * high byte
Encoded(packet) == packet[7] + 256 * packet[8]

\* C1 (Spec): at the end of a tick all_reached is true only if every motor
\* of MOTOR_IDS was read in that tick and found within STEP_SIZE of its
\* target; a tick with an absent read never marks the waypoint reached.
C1_ReachedOnlyIfAllConverged ==
    (pc = "tick_end" /\ all_reached) => \A m \in MotorIdSet : status[m] = "converged"

\* C2 (Spec): the command of a loop iteration is determined by its read: an
\* absent read issues no position write; a read within STEP_SIZE of the
\* target commands exactly the target; any other read commands the read
\* position plus STEP_SIZE below the target and minus STEP_SIZE above it.
C2_CommandDeterminedByRead ==
    polled # 0 =>
        LET target == targets(waypoint_idx)[polled]
            error == target - current.val
        IN  /\ current.kind \in {"none", "int"}
            /\ current = None =>
                 /\ cmd = None
                 /\ \A i \in 1..Len(tx) : tx[i][5] = SCS_READ
            /\ current.kind = "int" =>
                 /\ cmd.kind = "int"
                 /\ abs(error) <= STEP_SIZE => cmd.val = target
                 /\ error > STEP_SIZE => cmd.val = current.val + STEP_SIZE
                 /\ error < 0 - STEP_SIZE => cmd.val = current.val - STEP_SIZE
                 /\ \A i \in 1..Len(tx) :
                        tx[i][5] = SCS_WRITE =>
                            /\ tx[i][3] = polled /\ tx[i][6] = SCS_GOAL_POSITION_L
                            /\ cmd.val \in 0..4095 => Encoded(tx[i]) = cmd.val

C2_Witness ==
    /\ polled # 0
    /\ current.kind = "int"
    /\ targets(waypoint_idx)[polled] - current.val > STEP_SIZE
    /\ cmd = IntVal(current.val + STEP_SIZE)
    /\ Len(tx) = 2
    /\ Encoded(tx[2]) = current.val + STEP_SIZE

\* C3 (Spec): a channel call that raises is not masked: it reaches main's
\* handlers, which end the run, so no run goes on after one.
C3_ChannelFaultEndsRun == io_raised => pc = "exit"

\* C4 (SpecDriver): a register read returns a value only for a response
\* with a valid header and a valid checksum byte.
C4_DecodedOnlyIfChecksumValid ==
    (dpc = "done" /\ IsReader(call) /\ result.kind = "int") =>
        (HeaderOk(rx) /\ ChecksumOk(rx, call.num_bytes))

\* C5 (SpecDriver): a response that does not start with 0xFF, 0xFF (the
\* empty and the one-byte response included) reads as absent: no value and
\* no exception.
C5_BadHeaderYieldsAbsent ==
    (dpc = "done" /\ IsReader(call) /\ fault = "none" /\ ~HeaderOk(rx)) => result = None

C5_Witness ==
    /\ dpc = "done" /\ call.op = "read_motor_register" /\ fault = "none"
    /\ Len(rx) = 8 /\ rx[1] = 255 /\ rx[2] = 0
    /\ result = None

\* C6 (SpecDriver): a register read of width 1 or 2 returns absent when the
\* channel returns fewer than 5 + width bytes, and a value when it returns
\* at least 5 + width bytes starting with 0xFF, 0xFF.
C6_LengthDecidesRead ==
    (dpc = "done" /\ IsReader(call) /\ fault = "none") =>
        /\ Len(rx) < 5 + call.num_bytes => result = None
        /\ (Len(rx) >= 5 + call.num_bytes /\ HeaderOk(rx)) => result.kind = "int"

\* C7 (SpecDecode): a valid width-2 response with data bytes lo, hi at
\* offsets 5 and 6 reads as lo + 256 * hi, for all lo, hi in 0..255.
C7_LittleEndianDecode ==
    dpc = "done" => result = IntVal(rx[6] + 256 * rx[7])

C7_Witness ==
    dpc = "done" /\ rx[6] = 52 /\ rx[7] = 18 /\ result = IntVal(4660)

\* C8 (SpecDriver): every position-write packet carries a position in
\* [0, 4095]: 4095 for an input above it, 0 for an input below 0, the
\* input itself otherwise.
C8_PositionClamped ==
    (dpc = "done" /\ IsPositionWriter(call)) =>
        \A i \in 1..Len(tx) :
            /\ Encoded(tx[i]) \in 0..4095
            /\ call.value > 4095 => Encoded(tx[i]) = 4095
            /\ call.value < 0 => Encoded(tx[i]) = 0
            /\ call.value \in 0..4095 => Encoded(tx[i]) = call.value

C8_Witness ==
    /\ dpc = "done" /\ call.op = "set_motor_position" /\ call.value = 5000
    /\ Len(tx) = 1 /\ Encoded(tx[1]) = 4095

\* C9 (SpecDriver): calculate_checksum(packet) is 255 - (sum of packet[2:]
\* modulo 256) for every packet of bytes, whatever its first two bytes; so is
\* the checksum byte of the packets the driver builds with it.
C9_ChecksumFormula ==
    /\ (dpc = "done" /\ call.op = "calculate_checksum") =>
           result = IntVal(255 - (sum(SliceFrom(call.packet, 2)) % 256))
    /\ (dpc = "done" /\ call.op \in {"read_motor_register", "set_motor_position",
                                      "set_motor_mode", "set_motor_speed"}) =>
           \A i \in 1..Len(tx) :
               tx[i][Len(tx[i])] =
                   255 - (sum(SubSeq(tx[i], 3, Len(tx[i]) - 1)) % 256)

C9_Witness ==
    /\ dpc = "done" /\ call.op = "calculate_checksum"
    /\ call.packet = <<0, 1, 200, 200>>
    /\ result = IntVal(111)

\* C10 (SpecDriver): in every command packet the driver writes, the bytes
\* from the id field through the checksum byte sum to 0xFF modulo 256.
C10_ChecksumRoundTrip ==
    dpc = "done" => \A i \in 1..Len(tx) : BitAnd(sum(SliceFrom(tx[i], 2)), 255) = 255

C10_Witness ==
    /\ dpc = "done" /\ call.op = "set_motor_speed" /\ call.value = 500
    /\ Len(tx) = 1 /\ Len(tx[1]) = 9
    /\ BitAnd(sum(SliceFrom(tx[1], 2)), 255) = 255

\* C11: one motor starting at 2048 and driven to the target 2148 with
\* STEP_SIZE 20, the servo following every command, is commanded 2068,
\* 2088, 2108, 2128, 2148 in that order and nothing else; the waypoint is
\* found reached at the end of the tick of the fifth command and of no
\* earlier tick.
C11_ScenarioSteps ==
    (cfg = ScenarioCfg /\ dev.kind = "servo" /\ dev.start[1] = 2048) =>
        LET expected == <<2068, 2088, 2108, 2128, 2148>>
        IN  /\ Len(dev.log) <= Len(expected)
            /\ \A i \in 1..Len(dev.log) : dev.log[i] = <<1, expected[i]>>
            /\ (reported # <<>> => Len(dev.log) = Len(expected))
            /\ (pc = "tick_end" => (all_reached <=> Len(dev.log) = Len(expected)))

C11_Witness ==
    /\ cfg = ScenarioCfg /\ dev.kind = "servo" /\ dev.start[1] = 2048
    /\ reported = <<1>>
    /\ dev.log = <<<<1, 2068>>, <<1, 2088>>, <<1, 2108>>, <<1, 2128>>, <<1, 2148>>>>

\* C12: with the script's six motors and motor 3 stuck at its home position,
\* 100 away from every target but the last, the first waypoint is never
\* logged as reached.
C12_StuckMotorBlocksWaypoint ==
    (cfg = CodeCfg /\ dev.kind = "servo" /\ 3 \in dev.stuck) => reported = <<>>

\* a goal position write is among the packets
HasGoalWrite(packets) == \E i \in 1..Len(packets) : IsGoalWrite(packets[i])

C14_WaypointsInOrder ==
    [][/\ waypoint_idx' \in {waypoint_idx, waypoint_idx + 1}
       /\ (waypoint_idx' # waypoint_idx => pc' = "poll" /\ motor_idx' = 1 /\ polled' = 0)
       /\ reported' \in {reported, Append(reported, Len(reported) + 1)}
       /\ Len(reported') <= Len(waypoints)
       /\ (pc' # "exit" => waypoint_idx' \in {0, Len(reported') + 1})
       /\ (Len(reported') = Len(waypoints) => pc' = "exit")
       /\ (HasGoalWrite(tx') /\ tx' # tx => waypoint_idx' = Len(reported') + 1)
       /\ pc # "exit"]_vars

C14_Witness == reported = <<1, 2, 3>> /\ pc = "exit"

\* C15: in a pass of a teleoperation loop, a motor whose leader read came
\* back absent is handed no set_motor_position call on the follower.
C15_AbsentReadSendsNothing ==
    script.pc # "idle" =>
        \A i \in 1..Len(script.got) :
            script.got[i][2] = None =>
                \A j \in 1..Len(script.sent) : script.sent[j][1] # script.got[i][1]

\* C20: every sample handed to connect_client.stream has as many names as
\* values.
C20_NamesMatchValues ==
    script.pc # "idle" =>
        \A i \in 1..Len(script.samples) :
            Len(script.samples[i].names) = Len(script.samples[i].values)

\* so101_live-motor.py publishes the five motors that answered out of six
C20_Witness ==
    /\ script.pc = "sleep" /\ script.name = "so101_live_motor"
    /\ Len(script.samples) = 1
    /\ Len(script.samples[1].names) = 5 /\ Len(script.samples[1].values) = 5

\* C16: a reading carried on by 4096 counts converts to the same angle as
\* before.
C16_PeriodIs4096 ==
    (angle.pc = "done" /\ angle.turns > 0) => angle.radians = angle.before

C18_AckDrained ==
    (dpc = "done" /\ IsPositionWriter(call) /\ result = True) => Unread = <<>>

\* C19: a driver call that no channel error cuts short makes exactly one
\* ser.write and exactly one ser.read.
C19_OneWriteOneRead ==
    (dpc = "done" /\ call.op \notin {"none", "calculate_checksum"} /\ fault = "none") =>
        Len(tx) = 1 /\ nreads = 1

\* C21 as stated: every command packet the driver transmits (read, position
\* write, mode, speed, torque) is exactly eight bytes long.
C21_EveryPacketEightBytes ==
    dpc = "done" => \A i \in 1..Len(tx) : Len(tx[i]) = 8

\* C21 (SpecDriver): a read packet and a write of a one-byte register (mode,
\* torque) are eight bytes long, a write of a two-byte register (position,
\* speed) is nine bytes long.
C21_PacketLengthByWidth ==
    dpc = "done" =>
        \A i \in 1..Len(tx) :
            Len(tx[i]) = IF IsReader(call) THEN 8 ELSE 7 + call.num_bytes

C21_Witness ==
    /\ dpc = "done" /\ call.op = "set_motor_speed" /\ call.value = 500
    /\ Len(tx) = 1 /\ Len(tx[1]) = 9 /\ tx[1][7] = 244 /\ tx[1][8] = 1

\* C22 (SpecDriver): every command packet the driver transmits starts with
\* 0xFF, 0xFF and its length field (offset 3) is the number of parameter
\* bytes (register address, and data or count) plus 2, which is the length
\* of the packet minus 4.
C22_HeaderAndLengthField ==
    dpc = "done" =>
        \A i \in 1..Len(tx) :
            LET params == IF IsReader(call) THEN 2 ELSE 1 + call.num_bytes
            IN  /\ tx[i][1] = 255 /\ tx[i][2] = 255
                /\ tx[i][4] = params + 2
                /\ tx[i][4] = Len(tx[i]) - 4

C22_Witness ==
    /\ dpc = "done" /\ call.op = "set_motor_mode"
    /\ Len(tx) = 1 /\ Len(tx[1]) = 8 /\ tx[1][4] = 4
    /\ tx[1][1] = 255 /\ tx[1][2] = 255

\* C23 (SpecLive): every read answered and every servo holding the position
\* last commanded to it, for start positions and targets in [0, 4095], a
\* run whose port has opened eventually has every waypoint logged as
\* reached, in order, has ended, and has closed the serial port.
C23_RunCompletes ==
    (ser = "open") ~>
        (/\ pc = "exit"
         /\ reported = [i \in 1..Len(cfg.targets) |-> i]
         /\ ser = "closed")

\* motor 1 driven from 0 to 4095 and back to 0, motor 2 starting at 4095
C23_Witness ==
    /\ pc = "exit" /\ ser = "closed" /\ reported = <<1, 2>>
    /\ cfg.motor_ids = <<1, 2>>
    /\ cfg.targets[1][1] = ENCODER_MAX /\ cfg.targets[2][1] = 0
    /\ dev.start[1] = 0 /\ dev.start[2] = ENCODER_MAX
    /\ dev.pos[1] = 0 /\ dev.pos[2] = 0

\* C24: when a run of the script's six motors and three waypoints has
\* logged the last waypoint as reached, the goal position last sent to
\* every motor is its home position.  (A servo that is not stuck holds the
\* goal position last sent to it.)
C24_LastCommandIsHome ==
    (/\ cfg = CodeCfg /\ dev.kind = "servo" /\ dev.stuck = {}
     /\ pc = "exit" /\ reported = <<1, 2, 3>>) =>
        \A m \in MotorIdSet : dev.pos[m] = HOME_POSITIONS[m]

\* the response of the servo to the read request: the last eight bytes
\* delivered
ResponseToRead == SliceFrom(avail, Len(avail) - 8)

\* C25: a position read that follows a write call on the same port returns
\* only the position of the response to its own request; no byte of the
\* acknowledgment of the write is decoded as position data.
C25_ReadDecodesOwnResponse ==
    (dpc = "done" /\ IsReader(call) /\ result.kind = "int") =>
        result.val = ResponseToRead[6] + 256 * ResponseToRead[7]

\* C26 (SpecDriver): a register read returns a value only from a response
\* whose id byte (offset 2) is the motor id requested and whose error byte
\* (offset 4) is zero.
C26_ValueOnlyFromOwnErrorFreeResponse ==
    (dpc = "done" /\ IsReader(call) /\ result.kind = "int") =>
        rx[3] = call.motor_id /\ rx[5] = 0

\* C27 (Spec): the goal position transmitted for a motor in a loop
\* iteration (after the clamp of set_motor_position) differs from the
\* position read for it in that iteration by at most STEP_SIZE, and is not
\* beyond the target as seen from the position read.
C27_StepBound ==
    (polled # 0 /\ current.kind = "int") =>
        LET target == cfg.targets[waypoint_idx][polled]
        IN  \A i \in 1..Len(tx) :
                IsGoalWrite(tx[i]) =>
                    /\ abs(Encoded(tx[i]) - current.val) <= STEP_SIZE
                    /\ current.val <= target => Encoded(tx[i]) <= target
                    /\ current.val >= target => Encoded(tx[i]) >= target

\* C28 (Spec): when the initial position read of a motor comes back absent,
\* main returns and the serial port is closed; no goal position is written
\* before every motor has answered its initial read, and nothing is
\* transmitted once main has returned.  (rx' is what the read of the step
\* found; the step that starts the first tick, waypoint_idx' = 1, clears it.)
C28_StartUpGate ==
    [][/\ (pc = "init_read" /\ waypoint_idx' = 0 /\ tt_parse_response(rx').kind # "int") =>
              (pc' = "exit" /\ ser' = "closed")
       /\ (waypoint_idx' = 0 => ~HasGoalWrite(tx'))
       /\ pc # "exit"]_vars

\* motors 1 and 2 have answered, the answer of motor 3 is cut short
C28_Witness ==
    /\ pc = "exit" /\ ser = "closed" /\ waypoint_idx = 0 /\ motor_idx = 3
    /\ Len(tx) = 1 /\ tx[1][3] = 3 /\ tx[1][5] = SCS_READ
    /\ Len(rx) = 7
    /\ reported = <<>>

\* C29 (SpecDriver): for every response the channel may deliver,
\* get_motor_position of so101_trajectory_test.py returns what
\* get_motor_position of feetech_interface.py (read_motor_register of
\* width 2) returns for the same response: the same value, or absent.
C29_ReadersEquivalent ==
    (dpc = "done" /\ call.op = "tt_get_motor_position" /\ fault = "none") =>
        result = get_motor_position("none", avail, call.motor_id).ret

\* frame_count is the length of each of the five buffers
BuffersMatch(self) ==
    /\ Len(self.timestamps) = self.frame_count
    /\ Len(self.leader_positions) = self.frame_count
    /\ Len(self.follower_positions) = self.frame_count
    /\ Len(self.camera_1_frames) = self.frame_count
    /\ Len(self.camera_2_frames) = self.frame_count

\* C30 (SpecRecorder): after any sequence of start_recording, add_frame and
\* stop_recording calls frame_count is the length of each of the five
\* buffers; add_frame while not recording and start_recording while
\* recording change nothing of the recorder; current_episode_num never
\* decreases, goes up by exactly 1 on a stop_recording that saves frames
\* and stays on a stop_recording with no frames.
C30_RecorderInvariant ==
    /\ BuffersMatch(recorder.self)
    /\ [][LET old == recorder.self
              new == recorder'.self
              op == recorder'.called
          IN  /\ BuffersMatch(new)
              /\ (op = "add_frame" /\ ~old.is_recording) =>
                     (new = old /\ recorder'.files = recorder.files)
              /\ (op = "start_recording" /\ old.is_recording) =>
                     (new = old /\ recorder'.files = recorder.files)
              /\ new.current_episode_num >= old.current_episode_num
              /\ (op = "stop_recording" /\ old.is_recording /\ old.frame_count > 0
                     /\ ~recorder'.raised) =>
                     /\ new.current_episode_num = old.current_episode_num + 1
                     /\ old.current_episode_num \in recorder'.files
              /\ (op = "stop_recording" /\ old.frame_count = 0) =>
                     new.current_episode_num = old.current_episode_num
              /\ op # "stop_recording" =>
                     new.current_episode_num = old.current_episode_num]_vars

\* data_dir held episodes 0 and 2; two frames were recorded and saved as
\* episode 3
C30_Witness ==
    /\ recorder.called = "stop_recording" /\ ~recorder.raised
    /\ recorder.files = {0, 2, 3}
    /\ recorder.self.current_episode_num = 4
    /\ ~recorder.self.is_recording
    /\ recorder.self.frame_count = 2 /\ recorder.self.timestamps = <<10, 11>>
    /\ Len(recorder.self.camera_2_frames) = 2

====
